---- MODULE Spec2Model ----
(***************************************************************************)
(* A model of gym-bot: the booking transaction and the schedule query of   *)
(* db.py (book_class, get_schedule), the conversation memory of agent.py   *)
(* (Memory) and the tool loop of agent.py (run_agent).                     *)
(***************************************************************************)
EXTENDS Integers, Sequences, FiniteSets, TLC

\* ------------------------------------------------------------------------
\* Bounds of the model
\* ------------------------------------------------------------------------
NumSessions == 2
NumMembers == 3
NumCalls == 3
MaxAppends == 12
MaxRuns == 2
\* The book_class calls that run next to get_schedule
ScheduleCalls == 2
\* The phone numbers that contact the studio, and the
\* get_or_create_member_by_phone calls made for them
NumPhones == 2
NumMemberCalls == 3

SessionIds == 1..NumSessions
MemberIds == 1..NumMembers
Calls == 1..NumCalls
\* A session id that no row of sessions carries.
MissingSession == NumSessions + 1

VARIABLES
    classes,          \* classes table: class id -> capacity
    sessions,         \* sessions table: session id -> class_id
    bookings,         \* committed rows of the bookings table
    bookings_id_seq,  \* the BIGSERIAL sequence behind bookings.id
    pc,               \* book_class call -> position in the coroutine
    session_id,       \* book_class call -> argument session_id
    member_id,        \* book_class call -> argument member_id
    remaining,        \* book_class call -> remaining read by remain_sql
    status,           \* book_class call -> status computed from remaining
    pending,          \* book_class call -> row version written, not yet committed
    result,           \* book_class call -> what the call returned or raised
    before,           \* book_class call -> calls that had ended when it started
    schedule,         \* what the last get_schedule call returned, and for which date
    members,          \* committed rows of the members table
    members_id_seq,   \* the BIGSERIAL sequence behind members.id
    gpc,              \* get_or_create_member_by_phone call -> position in the coroutine
    phone,            \* get_or_create_member_by_phone call -> argument phone
    inserted,         \* get_or_create call -> row inserted, not yet committed
    m_result,         \* get_or_create call -> what the call returned or raised
    redis_history,    \* the value under the key history:{user_id} of one member
    mpc,              \* append_history call -> position in the coroutine
    hist,             \* append_history call -> its local list hist
    entry,            \* append_history call -> the entry it appends
    appendCount,      \* number of append_history calls made so far (the clock of ts)
    interleaved,      \* an append_history call started while another was in flight
    expired,          \* the key history:{user_id} has expired at least once
    redis_profile,    \* the key profile:{user_id} holds a profile
    apc,              \* run_agent invocation -> position in the coroutine
    runs,             \* number of run_agent invocations started so far
    user_text,        \* run_agent -> argument user_text
    history,          \* run_agent -> its local list history
    profile,          \* run_agent -> its local profile (TRUE: a non-empty dict)
    msgs,             \* run_agent -> its local list msgs
    step,             \* run_agent -> iterations of "for _ in range(3)" begun
    out,              \* run_agent -> the model's answer to the last query
    final,            \* run_agent -> the reply being stored (final or fallback)
    reply,            \* run_agent -> the value returned to the caller
    queries,          \* run_agent -> the answers to its model queries, in order
    fn_calls          \* run_agent -> the names whose handler it invoked, in order

bookingVars == <<classes, sessions, bookings, bookings_id_seq, pc, session_id,
                 member_id, remaining, status, pending, result, before, schedule>>

memberVars == <<members, members_id_seq, gpc, phone, inserted, m_result>>

memoryVars == <<redis_history, mpc, hist, entry, appendCount, interleaved, expired>>

agentVars == <<redis_profile, apc, runs, user_text, history, profile, msgs, step, out, final,
               reply, queries, fn_calls>>

vars == <<bookingVars, memberVars, memoryVars, agentVars>>

\* ------------------------------------------------------------------------
\* db.py: schema and seed
\* ------------------------------------------------------------------------
\* SEED_SQL: the seeded classes differ in capacity; class c is seeded with c seats
SeedCapacity(c) == c

NoRow == [id |-> 0, session_id |-> 0, member_id |-> 0, status |-> "none"]
NoResult == [kind |-> "none", booking_id |-> 0, status |-> "none", error |-> "none"]

\* SELECT count(*) FROM bookings b WHERE b.session_id = s.id AND b.status='confirmed'
ConfirmedCount(s) ==
    Cardinality({b \in bookings : b.session_id = s /\ b.status = "confirmed"})

\* c.capacity of the class joined to session s
Capacity(s) == classes[sessions[s]]

\* remain_sql: capacity - COALESCE(count, 0) AS remaining
Remaining(s) == Capacity(s) - ConfirmedCount(s)

\* remain_sql fetchone(): is there a row for the session id
SessionFound(s) == s \in DOMAIN sessions

\* Variant: the comparison admits remaining = 0
StatusForNonNegative(rem) == IF rem >= 0 THEN "confirmed" ELSE "waitlist"

\* status = 'confirmed' if remaining > 0 else 'waitlist'
StatusFor(rem) == IF rem > 0 THEN "confirmed" ELSE "waitlist"

\* raise ValueError("Session not found")
NotFoundError == "Session not found"
\* Variant: the "if not r" test is missing and unpacking None raises TypeError
RaiseUnpackError == [NoResult EXCEPT !.kind = "error", !.error = "TypeError"]
RaiseNotFound == [NoResult EXCEPT !.kind = "error", !.error = NotFoundError]

\* The committed row of the pair (s, m), the target of ON CONFLICT (session_id, member_id)
ConflictRows(s, m) == {b \in bookings : b.session_id = s /\ b.member_id = m}

\* Variant: a plain INSERT into a table without the unique constraint
UpsertRowInsertOnly(s, m, st, newId) ==
    [id |-> newId, session_id |-> s, member_id |-> m, status |-> st]

\* INSERT ... ON CONFLICT (session_id, member_id) DO UPDATE SET status=EXCLUDED.status
\* RETURNING id: the row version the statement writes
UpsertRow(s, m, st, newId) ==
    IF ConflictRows(s, m) # {}
    THEN LET old == CHOOSE b \in ConflictRows(s, m) : TRUE
         IN [old EXCEPT !.status = st]
    ELSE [id |-> newId, session_id |-> s, member_id |-> m, status |-> st]

\* The row lock / unique-index wait of the upsert: another open transaction has
\* written the pair (s, m) and not yet committed
RowLocked(p, s, m) ==
    \E q \in Calls : q # p /\ pc[q] = "commit"
                     /\ pending[q].session_id = s /\ pending[q].member_id = m

\* Variant: the update lacks the member in its target, so the new status is
\* written to every row of the session
CommitRowWholeSession(row) ==
    {[b EXCEPT !.status = IF b.session_id = row.session_id THEN row.status ELSE @] :
        b \in {c \in bookings : c.id # row.id}} \cup {row}

\* Commit at the exit of "async with POOL.connection()": the row version replaces
\* the committed one of the same id
CommitRow(row) == {b \in bookings : b.id # row.id} \cup {row}

\* dt.date.today(), and CURRENT_DATE when the sessions were seeded: day 1
Today == 1

\* SEED_SQL: every seeded session is of CURRENT_DATE
SessionDate(s) == Today

\* SEED_SQL: the start times are slots of the day; the ids of the seeded rows do
\* not follow the start times (here: a later id starts earlier)
StartTime(s) == NumSessions + 1 - s

\* The values of "when" a caller passes: None, a text naming today, a text naming
\* tomorrow, the ISO date of tomorrow, a text that is none of these
Whens == {"none", "heute", "morgen", "iso_tomorrow", "garbage"}

\* _to_date_from_when(when)
to_date_from_when(when) ==
    CASE when = "none" -> Today
      [] when = "morgen" -> Today + 1
      [] when = "heute" -> Today
      [] when = "iso_tomorrow" -> Today + 1
      [] OTHER -> Today

NoSchedule == [the_date |-> 0, rows |-> <<>>]

\* FROM sessions s JOIN classes c ON c.id = s.class_id WHERE s.date = %s
ScheduleSessions(the_date) == {s \in DOMAIN sessions : SessionDate(s) = the_date}

\* One row of the SELECT of get_schedule, as the dict returned for it (title,
\* coach and end_time left out; date and start_time before their formatting)
ScheduleRow(s) ==
    [session_id |-> s, capacity |-> Capacity(s), date |-> SessionDate(s),
     start_time |-> StartTime(s), remaining |-> Remaining(s)]

\* Variant: the rows come in the order of their ids (ORDER BY s.id)
OrderById(S) ==
    {q \in [1..Cardinality(S) -> S] :
        \A i, j \in 1..Cardinality(S) : i < j => q[i] < q[j]}

\* ORDER BY s.start_time: the orders in which the statement may return the
\* sessions S, each once, start times ascending, equal start times in any order
OrderByStartTime(S) ==
    {q \in [1..Cardinality(S) -> S] :
        /\ \A i, j \in 1..Cardinality(S) : i # j => q[i] # q[j]
        /\ \A i, j \in 1..Cardinality(S) : i < j => StartTime(q[i]) <= StartTime(q[j])}

InitBooking ==
    /\ classes = [c \in SessionIds |-> SeedCapacity(c)]
    /\ sessions = [s \in SessionIds |-> s]
    /\ bookings = {}
    /\ bookings_id_seq = 1
    /\ pc = [p \in Calls |-> "idle"]
    /\ session_id = [p \in Calls |-> 0]
    /\ member_id = [p \in Calls |-> 0]
    /\ remaining = [p \in Calls |-> 0]
    /\ status = [p \in Calls |-> "none"]
    /\ pending = [p \in Calls |-> NoRow]
    /\ result = [p \in Calls |-> NoResult]
    /\ before = [p \in Calls |-> {}]
    /\ schedule = NoSchedule

Ended(p) == pc[p] \in {"done", "error"}
Active(p) == pc[p] \in {"upsert", "commit"}

\* The members a caller may pass: members are interchangeable rows of the members
\* table, so a member that has not booked yet is the lowest id not yet passed
CallMembers ==
    LET used == {member_id[q] : q \in {r \in Calls : pc[r] # "idle"}}
    IN {m \in MemberIds : \A k \in MemberIds : k < m => k \in used}

\* book_class(session_id, member_id) is called and runs to its first statement:
\* await cur.execute(remain_sql); r = await cur.fetchone(); if not r: raise;
\* status = ...   Calls are started in the order of their index (they are
\* interchangeable).
book_class_select(p) ==
    /\ pc[p] = "idle"
    /\ \A q \in Calls : q < p => pc[q] # "idle"
    /\ before' = [before EXCEPT ![p] = {q \in Calls : Ended(q)}]
    /\ \E s \in SessionIds \cup {MissingSession}, m \in CallMembers :
          /\ session_id' = [session_id EXCEPT ![p] = s]
          /\ member_id' = [member_id EXCEPT ![p] = m]
          /\ IF SessionFound(s)
             THEN /\ remaining' = [remaining EXCEPT ![p] = Remaining(s)]
                  /\ status' = [status EXCEPT ![p] = StatusFor(Remaining(s))]
                  /\ pc' = [pc EXCEPT ![p] = "upsert"]
                  /\ UNCHANGED result
             ELSE /\ result' = [result EXCEPT ![p] = RaiseNotFound]
                  /\ pc' = [pc EXCEPT ![p] = "error"]
                  /\ UNCHANGED <<remaining, status>>
    /\ UNCHANGED <<classes, sessions, bookings, bookings_id_seq, pending, schedule>>
    /\ UNCHANGED <<memberVars, memoryVars, agentVars>>

\* await cur.execute("INSERT ... ON CONFLICT ... RETURNING id")
book_class_upsert(p) ==
    /\ pc[p] = "upsert"
    /\ ~RowLocked(p, session_id[p], member_id[p])
    /\ pending' = [pending EXCEPT ![p] =
                      UpsertRow(session_id[p], member_id[p], status[p], bookings_id_seq)]
    /\ bookings_id_seq' = bookings_id_seq + 1
    /\ pc' = [pc EXCEPT ![p] = "commit"]
    /\ UNCHANGED <<classes, sessions, bookings, session_id, member_id, remaining,
                   status, result, before, schedule>>
    /\ UNCHANGED <<memberVars, memoryVars, agentVars>>

\* bid = (await cur.fetchone())[0]; return {...}; the connection block commits
book_class_return(p) ==
    /\ pc[p] = "commit"
    /\ bookings' = CommitRow(pending[p])
    /\ result' = [result EXCEPT ![p] =
                     [NoResult EXCEPT !.kind = "ok", !.booking_id = pending[p].id,
                                      !.status = status[p]]]
    /\ pc' = [pc EXCEPT ![p] = "done"]
    /\ remaining' = [remaining EXCEPT ![p] = 0]
    /\ status' = [status EXCEPT ![p] = "none"]
    /\ pending' = [pending EXCEPT ![p] = NoRow]
    /\ UNCHANGED <<classes, sessions, bookings_id_seq, session_id, member_id, before,
                   schedule>>
    /\ UNCHANGED <<memberVars, memoryVars, agentVars>>

\* get_schedule(when): the_date = _to_date_from_when(when); one SELECT (it sees
\* the committed rows); return [{...} for r in rows]
get_schedule(when) ==
    /\ LET the_date == to_date_from_when(when)
       IN \E q \in OrderByStartTime(ScheduleSessions(the_date)) :
             schedule' = [the_date |-> the_date,
                          rows |-> [i \in DOMAIN q |-> ScheduleRow(q[i])]]
    /\ UNCHANGED <<classes, sessions, bookings, bookings_id_seq, pc, session_id,
                   member_id, remaining, status, pending, result, before>>
    /\ UNCHANGED <<memberVars, memoryVars, agentVars>>

\* book_class calls next to get_schedule calls
NextSchedule ==
    \/ \E p \in 1..ScheduleCalls :
          \/ book_class_select(p)
          \/ book_class_upsert(p)
          \/ book_class_return(p)
    \/ \E when \in Whens : get_schedule(when)

NextBooking ==
    \E p \in Calls :
        \/ book_class_select(p)
        \/ book_class_upsert(p)
        \/ book_class_return(p)

\* ------------------------------------------------------------------------
\* db.py: members (get_member_by_phone, get_or_create_member_by_phone)
\* ------------------------------------------------------------------------
Phones == 1..NumPhones
MemberCalls == 1..NumMemberCalls

\* fetchone() of a SELECT without a row: None
NoMember == [id |-> 0, phone |-> 0]
NoMemberResult == [kind |-> "none", id |-> 0, error |-> "none"]

\* psycopg.errors.UniqueViolation: members_phone_key (phone TEXT UNIQUE)
UniqueViolation == "UniqueViolation"

\* get_member_by_phone: SELECT id, phone, name, email FROM members WHERE phone=%s;
\* the committed row of the phone, or None
get_member_by_phone(ph) ==
    IF \E r \in members : r.phone = ph
    THEN CHOOSE r \in members : r.phone = ph
    ELSE NoMember

\* The unique-index wait of the INSERT: another open transaction has inserted
\* the phone and not yet committed
PhoneLocked(c, ph) ==
    \E d \in MemberCalls : d # c /\ gpc[d] = "commit" /\ inserted[d].phone = ph

InitMembers ==
    /\ members = {}
    /\ members_id_seq = 1
    /\ gpc = [c \in MemberCalls |-> "idle"]
    /\ phone = [c \in MemberCalls |-> 0]
    /\ inserted = [c \in MemberCalls |-> NoMember]
    /\ m_result = [c \in MemberCalls |-> NoMemberResult]

\* get_or_create_member_by_phone(phone) is called: m = await
\* get_member_by_phone(phone) (its own connection); if m: return m
get_or_create_select(c) ==
    /\ gpc[c] = "idle"
    /\ \E ph \in Phones :
          /\ phone' = [phone EXCEPT ![c] = ph]
          /\ LET m == get_member_by_phone(ph)
             IN IF m # NoMember
                THEN /\ m_result' = [m_result EXCEPT ![c] =
                                        [NoMemberResult EXCEPT !.kind = "ok", !.id = m.id]]
                     /\ gpc' = [gpc EXCEPT ![c] = "done"]
                ELSE /\ gpc' = [gpc EXCEPT ![c] = "insert"]
                     /\ UNCHANGED m_result
    /\ UNCHANGED <<members, members_id_seq, inserted>>
    /\ UNCHANGED <<bookingVars, memoryVars, agentVars>>

\* await cur.execute("INSERT INTO members (phone, name) VALUES (%s,%s) RETURNING
\* ..."): the id is drawn from the sequence, then the unique index on phone is
\* checked against the committed rows; a violation leaves the call
get_or_create_insert(c) ==
    /\ gpc[c] = "insert"
    /\ ~PhoneLocked(c, phone[c])
    /\ members_id_seq' = members_id_seq + 1
    /\ IF get_member_by_phone(phone[c]) # NoMember
       THEN /\ m_result' = [m_result EXCEPT ![c] =
                               [NoMemberResult EXCEPT !.kind = "error",
                                                      !.error = UniqueViolation]]
            /\ gpc' = [gpc EXCEPT ![c] = "error"]
            /\ UNCHANGED inserted
       ELSE /\ inserted' = [inserted EXCEPT ![c] =
                               [id |-> members_id_seq, phone |-> phone[c]]]
            /\ gpc' = [gpc EXCEPT ![c] = "commit"]
            /\ UNCHANGED m_result
    /\ UNCHANGED <<members, phone>>
    /\ UNCHANGED <<bookingVars, memoryVars, agentVars>>

\* r = await cur.fetchone(); return {...}; the connection block commits
get_or_create_return(c) ==
    /\ gpc[c] = "commit"
    /\ members' = members \cup {inserted[c]}
    /\ m_result' = [m_result EXCEPT ![c] =
                       [NoMemberResult EXCEPT !.kind = "ok", !.id = inserted[c].id]]
    /\ inserted' = [inserted EXCEPT ![c] = NoMember]
    /\ gpc' = [gpc EXCEPT ![c] = "done"]
    /\ UNCHANGED <<members_id_seq, phone>>
    /\ UNCHANGED <<bookingVars, memoryVars, agentVars>>

NextMembers ==
    \E c \in MemberCalls :
        \/ get_or_create_select(c)
        \/ get_or_create_insert(c)
        \/ get_or_create_return(c)

\* ------------------------------------------------------------------------
\* agent.py: Memory (history of one member in Redis)
\* ------------------------------------------------------------------------
\* The coroutines that call Memory.append_history concurrently
Appenders == {"w1", "w2"}
\* The coroutines that run run_agent for the member: the webhook may process
\* two messages of one member at the same time
Agents == {"a1", "a2"}
Procs == Appenders \cup Agents
\* run_agent appends the user's entry, then the assistant's: the roles of
\* successive append_history calls alternate
RoleOfCall(n) == IF n % 2 = 1 THEN "user" ELSE "assistant"
Contents == {"hi"}

\* append_history(..., keep_last=10)
keep_last == 10

\* A key Redis does not hold (never set, or expired): r.get returns None
NoKey == [exists |-> FALSE, val |-> <<>>]
NoEntry == [role |-> "none", content |-> "none", ts |-> 0]

\* get_history: raw = await self.r.get(...); json.loads(raw) if raw else []
get_history == IF redis_history.exists THEN redis_history.val ELSE <<>>

\* Variant: the role is not stored, every entry is written as a user entry
NewEntryAsUser(role, content, now) == [role |-> "user", content |-> content, ts |-> now]

\* {"role": role, "content": content, "ts": int(time.time())}; the clock is
\* logical: it ticks once per append_history call
NewEntry(role, content, now) == [role |-> role, content |-> content, ts |-> now]

\* The last n elements of a list: s[-n:] for n > 0
LastN(s, n) == IF Len(s) <= n THEN s ELSE SubSeq(s, Len(s) - n + 1, Len(s))

\* Variant: the list is cut to its first keep_last entries, hist[:keep_last]
TrimOldest(h) == IF Len(h) <= keep_last THEN h ELSE SubSeq(h, 1, keep_last)

\* Variant: the list is stored uncut
TrimNothing(h) == h

\* hist = hist[-keep_last:]
Trim(h) == LastN(h, keep_last)

\* await self.r.set(f"history:{user_id}", json.dumps(hist), ex=self.ttl)
SetHistory(h) == [exists |-> TRUE, val |-> h]

InitMemory ==
    /\ redis_history = NoKey
    /\ mpc = [a \in Procs |-> "idle"]
    /\ hist = [a \in Procs |-> <<>>]
    /\ entry = [a \in Procs |-> NoEntry]
    /\ appendCount = 0
    /\ interleaved = FALSE
    /\ expired = FALSE

\* append_history(user_id, role, content) is called and runs to its first await:
\* hist = await self.get_history(user_id)
append_history_get(a) ==
    /\ mpc[a] = "idle"
    /\ appendCount < MaxAppends
    /\ \E content \in Contents :
          entry' = [entry EXCEPT ![a] =
                       NewEntry(RoleOfCall(appendCount + 1), content, appendCount + 1)]
    /\ appendCount' = appendCount + 1
    /\ hist' = [hist EXCEPT ![a] = get_history]
    /\ interleaved' = (interleaved \/ \E b \in Procs : b # a /\ mpc[b] # "idle")
    /\ mpc' = [mpc EXCEPT ![a] = "set"]
    /\ UNCHANGED <<redis_history, expired>>
    /\ UNCHANGED <<bookingVars, memberVars, agentVars>>

\* hist.append(...); hist = hist[-keep_last:]; await self.r.set(...); return
append_history_set(a) ==
    /\ mpc[a] = "set"
    /\ redis_history' = SetHistory(Trim(Append(hist[a], entry[a])))
    /\ mpc' = [mpc EXCEPT ![a] = "idle"]
    /\ hist' = [hist EXCEPT ![a] = <<>>]
    /\ entry' = [entry EXCEPT ![a] = NoEntry]
    /\ UNCHANGED <<appendCount, interleaved, expired>>
    /\ UNCHANGED <<bookingVars, memberVars, agentVars>>

\* The time-to-live of the key (ex=self.ttl) runs out: Redis drops the key
redis_expire ==
    /\ redis_history.exists
    /\ redis_history' = NoKey
    /\ expired' = TRUE
    /\ UNCHANGED <<mpc, hist, entry, appendCount, interleaved>>
    /\ UNCHANGED <<bookingVars, memberVars, agentVars>>

NextMemory ==
    \/ \E a \in Appenders : append_history_get(a)
    \/ \E a \in Appenders : append_history_set(a)
    \/ redis_expire

\* ------------------------------------------------------------------------
\* agent.py: tools and run_agent
\* ------------------------------------------------------------------------
\* TOOLS: the registry, name -> handler ("fn") and declared parameters
TOOLS ==
    [get_schedule |-> [fn |-> "tool_get_schedule", params |-> {"when"}],
     book_class   |-> [fn |-> "tool_book_class", params |-> {"course", "time", "user_id"}],
     handover     |-> [fn |-> "tool_handover", params |-> {"note"}]]

\* The names a model answer may carry: the registered ones and one that is not
ToolNames == DOMAIN TOOLS \cup {"cancel_class"}

\* tc["function"]["arguments"] as the model may send it:
\*   object     a JSON object whose values are strings
\*   empty      None or "" (read as "{}")
\*   nonstring  a JSON object whose values are numbers
\*   not_object valid JSON that is no object (a list)
\*   bad_json   text that is no JSON
ArgKinds == {"object", "empty", "nonstring", "not_object", "bad_json"}

\* out["content"] of a terminal answer: a text, the empty string, or None
FinalContents == {"text", "", "null"}

\* One model query ends in a timeout or a connection error (client.post raises), in
\* a non-success status (raise_for_status raises) or in a message
ModelAnswers ==
    {[kind |-> k, content |-> "null", tool |-> "none", arguments |-> "none"] :
        k \in {"timeout", "http_error"}}
    \cup {[kind |-> "message", content |-> c, tool |-> "none", arguments |-> "none"] :
             c \in FinalContents}
    \cup {[kind |-> "message", content |-> "null", tool |-> n, arguments |-> k] :
             n \in ToolNames, k \in ArgKinds}

NoAnswer == [kind |-> "none", content |-> "null", tool |-> "none", arguments |-> "none"]

\* if "tool_calls" in out and out["tool_calls"]
HasToolCall(o) == o.tool # "none"

\* args = json.loads(tc["function"]["arguments"] or "{}") raises JSONDecodeError
DecodeFails(arguments) == arguments = "bad_json"

\* fn = TOOLS.get(tool_name, {}).get("fn")
Fn(tool_name) == IF tool_name \in DOMAIN TOOLS THEN TOOLS[tool_name].fn ELSE "None"

\* await fn(args) raises: args.get on a list (AttributeError) in every handler;
\* (args.get("when") or "today").lower() on a number in tool_get_schedule
HandlerFails(fn, arguments) ==
    \/ arguments = "not_object"
    \/ fn = "tool_get_schedule" /\ arguments = "nonstring"

\* json.dumps(tool_result): the dict the handler returned, or the initial {}
ToolResult(fn) ==
    CASE fn = "tool_get_schedule" -> "{when, classes}"
      [] fn = "tool_book_class" -> "{ok, course, time, booking_id}"
      [] fn = "tool_handover" -> "{ok, note, routed_to}"
      [] OTHER -> "{}"

\* Variant: one more iteration, range(4)
MaxToolStepsMore == 3 + 1
\* range(3)
MaxToolSteps == 3
\* history[-6:]
HistoryWindow == 6

SYSTEM_PROMPT == "Du bist der Studio-Assistent eines Fitnessstudios. ..."
fallback == "Ich habe das nicht eindeutig verstanden. ..."

Msg(role, content, name, arguments) ==
    [role |-> role, content |-> content, name |-> name, arguments |-> arguments]

\* for m in history[-6:]: msgs.append({"role": "user" if m["role"]=="user" else
\* "assistant", "content": m["content"]})
HistoryMsgs(h) ==
    LET w == LastN(h, HistoryWindow)
    IN [i \in 1..Len(w) |->
           Msg(IF w[i].role = "user" THEN "user" ELSE "assistant", w[i].content,
               "none", "none")]

\* msgs as built before the loop (lines 96-102)
BuildMsgs(prof, h) ==
    <<Msg("system", SYSTEM_PROMPT, "none", "none")>>
    \o (IF prof THEN <<Msg("system", "PROFILE", "none", "none")>> ELSE <<>>)
    \o HistoryMsgs(h)

\* final = out.get("content") or ""
FinalOf(o) == IF o.content = "null" THEN "" ELSE o.content

\* user_text of the n-th inbound message of the member: the messages differ
InboundText(n) == "message " \o ToString(n)

Ended_run(a) == apc[a] \in {"returned", "raised"}

InitAgent ==
    /\ redis_profile = FALSE
    /\ apc = [a \in Agents |-> "idle"]
    /\ runs = 0
    /\ user_text = [a \in Agents |-> ""]
    /\ history = [a \in Agents |-> <<>>]
    /\ profile = [a \in Agents |-> FALSE]
    /\ msgs = [a \in Agents |-> <<>>]
    /\ step = [a \in Agents |-> 0]
    /\ out = [a \in Agents |-> NoAnswer]
    /\ final = [a \in Agents |-> ""]
    /\ reply = [a \in Agents |-> ""]
    /\ queries = [a \in Agents |-> <<>>]
    /\ fn_calls = [a \in Agents |-> <<>>]

\* Memory.set_profile: await self.r.set(f"profile:{user_id}", json.dumps(data), ...)
\* with a non-empty dict
set_profile ==
    /\ ~redis_profile
    /\ redis_profile' = TRUE
    /\ UNCHANGED <<memoryVars, apc, runs, user_text, history, profile, msgs, step, out, final,
                   reply, queries, fn_calls>>
    /\ UNCHANGED <<bookingVars, memberVars>>

\* memory.append_history(user_id, role, content) called by run_agent, up to its
\* first await: hist = await self.get_history(user_id)
AgentAppendGet(a, role, content) ==
    /\ entry' = [entry EXCEPT ![a] = NewEntry(role, content, appendCount + 1)]
    /\ appendCount' = appendCount + 1
    /\ hist' = [hist EXCEPT ![a] = get_history]
    /\ interleaved' = (interleaved \/ \E b \in Procs : b # a /\ mpc[b] # "idle")
    /\ mpc' = [mpc EXCEPT ![a] = "set"]
    /\ UNCHANGED <<redis_history, expired>>

\* run_agent(user_id, user_text, memory) is called for an inbound message:
\* await memory.append_history(user_id, "user", user_text), up to its GET
run_agent_start(a) ==
    /\ apc[a] \in {"idle", "returned", "raised"}
    /\ runs < MaxRuns
    /\ runs' = runs + 1
    /\ user_text' = [user_text EXCEPT ![a] = InboundText(runs + 1)]
    /\ AgentAppendGet(a, "user", InboundText(runs + 1))
    /\ apc' = [apc EXCEPT ![a] = "append_user"]
    /\ history' = [history EXCEPT ![a] = <<>>]
    /\ profile' = [profile EXCEPT ![a] = FALSE]
    /\ msgs' = [msgs EXCEPT ![a] = <<>>]
    /\ step' = [step EXCEPT ![a] = 0]
    /\ out' = [out EXCEPT ![a] = NoAnswer]
    /\ final' = [final EXCEPT ![a] = ""]
    /\ reply' = [reply EXCEPT ![a] = ""]
    /\ queries' = [queries EXCEPT ![a] = <<>>]
    /\ fn_calls' = [fn_calls EXCEPT ![a] = <<>>]
    /\ UNCHANGED redis_profile
    /\ UNCHANGED <<bookingVars, memberVars>>

\* history = await memory.get_history(user_id)
run_agent_get_history(a) ==
    /\ apc[a] = "append_user" /\ mpc[a] = "idle"
    /\ history' = [history EXCEPT ![a] = get_history]
    /\ apc' = [apc EXCEPT ![a] = "get_profile"]
    /\ UNCHANGED <<memoryVars, redis_profile, runs, user_text, profile, msgs, step, out,
                   final, reply, queries, fn_calls>>
    /\ UNCHANGED <<bookingVars, memberVars>>

\* profile = await memory.get_profile(user_id); msgs = [...]; headers; tools
run_agent_get_profile(a) ==
    /\ apc[a] = "get_profile"
    /\ profile' = [profile EXCEPT ![a] = redis_profile]
    /\ msgs' = [msgs EXCEPT ![a] = BuildMsgs(redis_profile, history[a])]
    /\ apc' = [apc EXCEPT ![a] = "query"]
    /\ UNCHANGED <<memoryVars, redis_profile, runs, user_text, history, step, out, final, reply,
                   queries, fn_calls>>
    /\ UNCHANGED <<bookingVars, memberVars>>

\* One iteration begins: r = await client.post(...); r.raise_for_status();
\* out = r.json()["choices"][0]["message"]
run_agent_query(a) ==
    /\ apc[a] = "query"
    /\ \E answer \in ModelAnswers :
          /\ queries' = [queries EXCEPT ![a] = Append(@, answer)]
          /\ out' = [out EXCEPT ![a] = answer]
          /\ apc' = [apc EXCEPT ![a] =
                        IF answer.kind # "message" THEN "raised"
                        ELSE IF HasToolCall(answer) THEN "dispatch" ELSE "final"]
    /\ step' = [step EXCEPT ![a] = @ + 1]
    /\ UNCHANGED <<memoryVars, redis_profile, runs, user_text, history, profile, msgs, final,
                   reply, fn_calls>>
    /\ UNCHANGED <<bookingVars, memberVars>>

\* The tool branch: tc, tool_name, args, fn, tool_result; msgs.append(out);
\* msgs.append({"role": "tool", ...}); continue.  An exception of json.loads or
\* of the handler leaves run_agent.
run_agent_dispatch(a) ==
    /\ apc[a] = "dispatch"
    /\ LET tool_name == out[a].tool
           arguments == out[a].arguments
           fn == Fn(tool_name)
       IN IF DecodeFails(arguments)
          THEN /\ apc' = [apc EXCEPT ![a] = "raised"]
               /\ UNCHANGED <<msgs, fn_calls>>
          ELSE /\ fn_calls' = [fn_calls EXCEPT ![a] =
                                  IF fn # "None" THEN Append(@, tool_name) ELSE @]
               /\ IF fn # "None" /\ HandlerFails(fn, arguments)
                  THEN /\ apc' = [apc EXCEPT ![a] = "raised"]
                       /\ UNCHANGED msgs
                  ELSE /\ msgs' = [msgs EXCEPT ![a] =
                                      @ \o <<Msg("assistant", out[a].content, tool_name,
                                                 arguments),
                                             Msg("tool", ToolResult(fn), tool_name,
                                                 "none")>>]
                       /\ apc' = [apc EXCEPT ![a] =
                                     IF step[a] < MaxToolSteps THEN "query"
                                     ELSE "fallback"]
    /\ UNCHANGED <<memoryVars, redis_profile, runs, user_text, history, profile, step, out, final,
                   reply, queries>>
    /\ UNCHANGED <<bookingVars, memberVars>>

\* final = out.get("content") or ""; await memory.append_history(user_id,
\* "assistant", final), up to its GET
run_agent_final(a) ==
    /\ apc[a] = "final"
    /\ final' = [final EXCEPT ![a] = FinalOf(out[a])]
    /\ AgentAppendGet(a, "assistant", FinalOf(out[a]))
    /\ apc' = [apc EXCEPT ![a] = "append_reply"]
    /\ UNCHANGED <<redis_profile, runs, user_text, history, profile, msgs, step, out, reply,
                   queries, fn_calls>>
    /\ UNCHANGED <<bookingVars, memberVars>>

\* The loop is exhausted: fallback = "..."; await memory.append_history(user_id,
\* "assistant", fallback), up to its GET
run_agent_fallback(a) ==
    /\ apc[a] = "fallback"
    /\ final' = [final EXCEPT ![a] = fallback]
    /\ AgentAppendGet(a, "assistant", fallback)
    /\ apc' = [apc EXCEPT ![a] = "append_reply"]
    /\ UNCHANGED <<redis_profile, runs, user_text, history, profile, msgs, step, out, reply,
                   queries, fn_calls>>
    /\ UNCHANGED <<bookingVars, memberVars>>

\* return final / return fallback
run_agent_return(a) ==
    /\ apc[a] = "append_reply" /\ mpc[a] = "idle"
    /\ reply' = [reply EXCEPT ![a] = final[a]]
    /\ apc' = [apc EXCEPT ![a] = "returned"]
    /\ UNCHANGED <<memoryVars, redis_profile, runs, user_text, history, profile, msgs, step, out,
                   final, queries, fn_calls>>
    /\ UNCHANGED <<bookingVars, memberVars>>

\* The store is unreachable: an awaited self.r.get or self.r.set of Memory raises
\* (redis ConnectionError / TimeoutError).  Neither Memory nor run_agent catches
\* it, so it leaves run_agent.  The awaits are the SET of either append_history,
\* the GET of get_history and the GET of get_profile; a failing GET at the head
\* of append_history stores as little as its failing SET.
run_agent_store_error(a) ==
    /\ \/ apc[a] \in {"append_user", "append_reply"} /\ mpc[a] = "set"
       \/ apc[a] = "append_user" /\ mpc[a] = "idle"
       \/ apc[a] = "get_profile"
    /\ apc' = [apc EXCEPT ![a] = "raised"]
    /\ mpc' = [mpc EXCEPT ![a] = "idle"]
    /\ hist' = [hist EXCEPT ![a] = <<>>]
    /\ entry' = [entry EXCEPT ![a] = NoEntry]
    /\ UNCHANGED <<redis_history, appendCount, interleaved, expired>>
    /\ UNCHANGED <<redis_profile, runs, user_text, history, profile, msgs, step, out, final,
                   reply, queries, fn_calls>>
    /\ UNCHANGED <<bookingVars, memberVars>>

\* One message is processed at a time
NextAgent ==
    \/ set_profile
    \/ \E a \in {"a1"} :
          \/ run_agent_start(a)
          \/ append_history_set(a)
          \/ run_agent_get_history(a)
          \/ run_agent_get_profile(a)
          \/ run_agent_query(a)
          \/ run_agent_dispatch(a)
          \/ run_agent_final(a)
          \/ run_agent_fallback(a)
          \/ run_agent_return(a)
          \/ run_agent_store_error(a)

\* Two messages of the member are processed concurrently, up to the first model
\* query of each
NextContext ==
    \/ set_profile
    \/ \E a \in Agents :
          \/ run_agent_start(a)
          \/ append_history_set(a)
          \/ run_agent_get_history(a)
          \/ run_agent_get_profile(a)

Init == InitBooking /\ InitMembers /\ InitMemory /\ InitAgent

Spec == Init /\ [][NextBooking]_vars

SpecMembers == Init /\ [][NextMembers]_vars

SpecSchedule == Init /\ [][NextSchedule]_vars

SpecMemory == Init /\ [][NextMemory]_vars

SpecAgent == Init /\ [][NextAgent]_vars

SpecContext == Init /\ [][NextContext]_vars

\* ------------------------------------------------------------------------
\* Properties of book_class
\* ------------------------------------------------------------------------
Min(a, b) == IF a < b THEN a ELSE b

WaitlistCount(s) ==
    Cardinality({b \in bookings : b.session_id = s /\ b.status = "waitlist"})

SamePair(p, q) == session_id[p] = session_id[q] /\ member_id[p] = member_id[q]

\* Calls p and q ran concurrently: neither had ended when the other started
Overlap(p, q) == p # q /\ pc[p] # "idle" /\ pc[q] # "idle"
                 /\ p \notin before[q] /\ q \notin before[p]

\* C1: in every reachable state, also under interleaved book_class calls, the
\* number of confirmed bookings of a session is at most the capacity of its class.
C1_CapacityNeverExceeded ==
    \A s \in DOMAIN sessions : ConfirmedCount(s) <= Capacity(s)

\* C2: once all calls have ended, a session whose N calls came from N distinct
\* members (one call each) has exactly min(N, C) confirmed bookings and
\* N - min(N, C) waitlisted ones, and its remaining-seat count is not negative.
C2_MinOfCallsAndCapacity ==
    (\A p \in Calls : ~Active(p)) =>
        \A s \in DOMAIN sessions :
            LET callers == {p \in Calls : pc[p] = "done" /\ session_id[p] = s}
                N == Cardinality(callers)
            IN (\A p, q \in callers : p # q => member_id[p] # member_id[q]) =>
                  /\ ConfirmedCount(s) = Min(N, Capacity(s))
                  /\ WaitlistCount(s) = N - Min(N, Capacity(s))
                  /\ Remaining(s) >= 0

\* Call q is the next booking call after call p: p had ended when q started and
\* every other call ended before p started or started after q ended (or never ran)
NextCallAfter(p, q) ==
    /\ p # q /\ pc[p] = "done" /\ pc[q] = "done"
    /\ p \in before[q]
    /\ \A r \in Calls \ {p, q} : pc[r] = "idle" \/ r \in before[p] \/ q \in before[r]

\* C3: when the same member books the same session twice with no other booking
\* call in between, the second call returns the status the first call returned.
C3_SecondStatusEqualsFirst ==
    \A p, q \in Calls :
        (NextCallAfter(p, q) /\ SamePair(p, q)) => result[q].status = result[p].status

\* C4: there is at most one bookings row per (session, member) pair, and all calls
\* for one pair return the same booking id, also when they run concurrently.
C4_OneRowPerPair ==
    /\ \A b1, b2 \in bookings :
          (b1.session_id = b2.session_id /\ b1.member_id = b2.member_id) => b1 = b2
    /\ \A p, q \in Calls :
          (pc[p] = "done" /\ pc[q] = "done" /\ SamePair(p, q))
              => result[p].booking_id = result[q].booking_id

\* Two concurrent calls for the same pair have both returned
C4_Witness ==
    \E p, q \in Calls : Overlap(p, q) /\ pc[p] = "done" /\ pc[q] = "done" /\ SamePair(p, q)

\* C5: a book_class call whose session id references no session ends in the error
\* "Session not found" and changes no booking row, committed or pending.
C5_NotFoundLeavesBookings ==
    [][\A p \in Calls :
          (pc[p] = "idle" /\ pc'[p] # "idle" /\ ~SessionFound(session_id'[p]))
              => /\ pc'[p] = "error"
                 /\ result'[p].kind = "error"
                 /\ result'[p].error = NotFoundError
                 /\ bookings' = bookings
                 /\ pending' = pending]_vars

\* A call for a missing session has ended while bookings exist
C5_Witness ==
    \E p \in Calls : pc[p] = "error" /\ session_id[p] = MissingSession /\ bookings # {}

\* C13: a book_class(s, m) call changes at most the row of the pair (s, m): every
\* step leaves each committed row of another pair as it is (same id, same
\* status) and adds no row of another pair; rows change only at the commit of
\* a call, and then only the row of that call's session and member.  So no
\* waitlisted booking of another member is promoted to confirmed.
C13_OnlyOwnRowChanges ==
    [][\A b \in bookings \cup bookings' :
          \/ b \in bookings /\ b \in bookings'
          \/ \E p \in Calls : /\ pc[p] = "commit" /\ pc'[p] = "done"
                              /\ b.session_id = session_id[p]
                              /\ b.member_id = member_id[p]]_vars

\* A call of one member has committed on a session on which another member's
\* earlier call was waitlisted, and that booking is still waitlisted
C13_Witness ==
    \E p, q \in Calls :
        /\ pc[p] = "done" /\ pc[q] = "done" /\ q \in before[p]
        /\ session_id[p] = session_id[q] /\ member_id[p] # member_id[q]
        /\ result[q].status = "waitlist"
        /\ \E b \in bookings : /\ b.id = result[q].booking_id
                               /\ b.member_id = member_id[q]
                               /\ b.status = "waitlist"

\* No two of the calls started so far ran concurrently: each ran to completion
\* before the next started
Sequential == \A p, q \in Calls : ~Overlap(p, q)

\* C17: when book_class calls do not interleave, a call returns confirmed exactly
\* when the number of confirmed bookings of its session at the start of the call
\* (which is the number at its return, before its own commit) is smaller than
\* the capacity, and waitlist otherwise; and after any such sequence of calls the
\* confirmed count of every session is at most its capacity.
C17_SequentialStatusAndCapacity ==
    /\ [](Sequential => \A s \in DOMAIN sessions : ConfirmedCount(s) <= Capacity(s))
    /\ [][\A p \in Calls :
             (pc[p] = "commit" /\ pc'[p] = "done" /\ Sequential) =>
                 result'[p].status =
                     IF ConfirmedCount(session_id[p]) < Capacity(session_id[p])
                     THEN "confirmed" ELSE "waitlist"]_vars

\* All calls have run one after the other; one was confirmed and a later one on
\* the same session was waitlisted
C17_Witness ==
    /\ Sequential /\ \A p \in Calls : pc[p] = "done"
    /\ \E p, q \in Calls : /\ p \in before[q] /\ session_id[p] = session_id[q]
                            /\ result[p].status = "confirmed"
                            /\ result[q].status = "waitlist"

\* C16: get_schedule(D) returns the sessions of date D, each once, in ascending
\* order of start time, each with remaining = capacity - number of confirmed
\* bookings of the session at the time of the call; for a date without sessions
\* it returns the empty sequence; and the call changes no booking.
C16_ScheduleOrderedAndReadOnly ==
    [][schedule' # schedule =>
          LET D == schedule'.the_date
              rows == schedule'.rows
          IN /\ bookings' = bookings
             /\ {rows[i].session_id : i \in DOMAIN rows} =
                    {s \in DOMAIN sessions : SessionDate(s) = D}
             /\ \A i, j \in DOMAIN rows :
                    i < j => /\ rows[i].session_id # rows[j].session_id
                             /\ rows[i].start_time <= rows[j].start_time
             /\ \A i \in DOMAIN rows :
                    /\ rows[i].date = D
                    /\ rows[i].start_time = StartTime(rows[i].session_id)
                    /\ rows[i].remaining =
                          Capacity(rows[i].session_id) - ConfirmedCount(rows[i].session_id)
             /\ (\A s \in DOMAIN sessions : SessionDate(s) # D) => rows = <<>>]_vars

\* get_schedule returned several sessions, one of them with a confirmed booking
\* counted (remaining below capacity) while a booking of it is waitlisted
C16_Witness ==
    /\ Len(schedule.rows) >= 2
    /\ \E i \in DOMAIN schedule.rows :
          /\ schedule.rows[i].remaining < schedule.rows[i].capacity
          /\ WaitlistCount(schedule.rows[i].session_id) > 0

\* ------------------------------------------------------------------------
\* Properties of get_or_create_member_by_phone
\* ------------------------------------------------------------------------
\* C22: after any interleaving of get_or_create_member_by_phone calls there is
\* at most one member row per phone, no call has ended with an error, and every
\* call that has returned for a phone returned the id of that phone's row.
C22_OneMemberPerPhoneNoError ==
    /\ \A r1, r2 \in members : r1.phone = r2.phone => r1 = r2
    /\ \A c \in MemberCalls :
          /\ gpc[c] # "error"
          /\ gpc[c] = "done" =>
                /\ m_result[c].kind = "ok"
                /\ m_result[c].id = get_member_by_phone(phone[c]).id

\* ------------------------------------------------------------------------
\* Properties of Memory
\* ------------------------------------------------------------------------
AppendsAtRest == \A a \in Appenders : mpc[a] = "idle"

\* The ts of the entries get_history returns
StoredTs == {get_history[i].ts : i \in DOMAIN get_history}

\* C6: no history entry is lost under concurrency: when fewer than keep_last
\* entries were appended and the key did not expire, the stored history holds
\* every appended entry once the calls have returned, however they interleaved.
C6_NoEntryLost ==
    (AppendsAtRest /\ ~expired /\ appendCount < keep_last)
        => \A n \in 1..appendCount : n \in StoredTs

\* C7: after M append_history calls that did not interleave, on an initially empty
\* history without expiry, get_history returns exactly min(M, keep_last) entries:
\* the most recently appended ones, in the order they were appended.
C7_HistoryBound ==
    (AppendsAtRest /\ ~interleaved /\ ~expired) =>
        LET M == appendCount
            n == Min(M, keep_last)
        IN /\ Len(get_history) = n
           /\ \A i \in 1..n : /\ get_history[i].ts = M - n + i
                              /\ get_history[i].role = RoleOfCall(M - n + i)

\* More than keep_last calls were made one after the other
C7_Witness ==
    AppendsAtRest /\ ~interleaved /\ ~expired /\ appendCount > keep_last

\* C21: in every reachable state, also those reached by interleaved
\* append_history calls for the member, the stored history holds at most
\* keep_last entries.
C21_StoredHistoryAtMostKeepLast == Len(get_history) <= keep_last

\* Calls have interleaved, more than keep_last were made, and the stored history
\* is full
C21_Witness ==
    /\ interleaved /\ appendCount > keep_last
    /\ Len(get_history) = keep_last

\* ------------------------------------------------------------------------
\* Properties of run_agent
\* ------------------------------------------------------------------------
\* Every answer of the invocation's model queries was a message with a tool call
AllToolCalls(a) ==
    /\ queries[a] # <<>>
    /\ \A i \in DOMAIN queries[a] :
          queries[a][i].kind = "message" /\ HasToolCall(queries[a][i])

\* The tool results of the invocation that answer an unregistered name
UnknownToolResults(a) ==
    {i \in DOMAIN msgs[a] : msgs[a][i].role = "tool" /\ msgs[a][i].name \notin DOMAIN TOOLS}

\* The payload the registry's dispatch is specified to return for such a name
UnknownCapabilityError == "{error: UnknownCapability}"

\* C8: every run_agent invocation that ends has returned to its caller, not
\* raised, and the reply it returned is a non-empty string, whatever the model
\* answered (timeout, non-success status, empty or absent content, a tool call
\* whose handler fails).
C8_AlwaysNonEmptyReply ==
    \A a \in Agents :
        /\ apc[a] # "raised"
        /\ apc[a] = "returned" => reply[a] # ""

\* C9: an invocation in which every model query succeeded and every answer
\* requested a tool ends after at most MaxToolSteps queries by returning the
\* fixed, non-empty fallback message.
C9_FallbackAfterStepBound ==
    \A a \in Agents :
        (Ended_run(a) /\ AllToolCalls(a)) =>
            /\ apc[a] = "returned"
            /\ reply[a] = fallback /\ fallback # ""
            /\ Len(queries[a]) <= MaxToolSteps

\* C10: for a requested name that is not in TOOLS the tool result put into msgs is
\* an UnknownCapability error payload, no handler is invoked for it, and the
\* invocation does not end by raising on that answer.
C10_UnknownCapabilityPayload ==
    \A a \in Agents :
        /\ \A i \in UnknownToolResults(a) : msgs[a][i].content = UnknownCapabilityError
        /\ \A i \in DOMAIN fn_calls[a] : fn_calls[a][i] \in DOMAIN TOOLS
        /\ (apc[a] = "raised" /\ out[a].kind = "message" /\ HasToolCall(out[a]))
               => out[a].tool \in DOMAIN TOOLS

\* The answer in out[a] requested a tool whose execution fails: its arguments do
\* not decode, or the registered handler raises on them
ToolFailed(a) ==
    /\ out[a].kind = "message" /\ HasToolCall(out[a])
    /\ \/ DecodeFails(out[a].arguments)
       \/ Fn(out[a].tool) # "None" /\ HandlerFails(Fn(out[a].tool), out[a].arguments)

\* The payload a failed execution is specified to feed back as the tool result
ToolFailureError == "{error: ToolFailed}"

\* C11: when the arguments of a requested tool do not decode or its handler
\* raises, the failure does not leave run_agent: once the tool branch is through,
\* msgs ends with a tool result carrying a structured failure payload for that
\* tool and the invocation goes on (to its next query or to the fallback).
C11_ToolFailureFedBack ==
    \A a \in Agents :
        (ToolFailed(a) /\ apc[a] # "dispatch") =>
            /\ apc[a] # "raised"
            /\ msgs[a] # <<>>
            /\ msgs[a][Len(msgs[a])].role = "tool"
            /\ msgs[a][Len(msgs[a])].name = out[a].tool
            /\ msgs[a][Len(msgs[a])].content = ToolFailureError

\* The invocation's first model query ended in a timeout, a connection error or
\* a non-success status
FirstQueryFailed(a) == Len(queries[a]) = 1 /\ queries[a][1].kind # "message"

\* The invocation ended before any model query was made: the store failed while
\* the context was built (append of the user entry, get_history, get_profile)
StoreFailedInContext(a) == Ended_run(a) /\ queries[a] = <<>>

\* C12: an invocation whose store is unreachable while the context is built, or
\* whose first model query fails or times out, ends by returning the fixed
\* non-empty degraded reply; it does not raise, and it makes no further query.
C12_DegradedReplyOnOutage ==
    \A a \in Agents :
        (StoreFailedInContext(a) \/ FirstQueryFailed(a)) =>
            /\ apc[a] # "raised"
            /\ Ended_run(a) => (reply[a] = fallback /\ fallback # "")
            /\ Len(queries[a]) <= 1

\* The tool results of the invocation that answer a book_class request
BookClassResults(a) ==
    {i \in DOMAIN msgs[a] : msgs[a][i].role = "tool" /\ msgs[a][i].name = "book_class"}

\* The shape of what db.book_class returns (db.py, lines 196-206)
EngineResult == "{booking_id, status, class, date, start, end, location}"

\* C14: when run_agent has executed a book_class request of the model, the booking
\* is committed by db.book_class (a row of bookings exists for it) and the tool
\* result put into msgs is the result db.book_class returned.
C14_BookingThroughEngine ==
    \A a \in Agents :
        \A i \in BookClassResults(a) :
            /\ bookings # {}
            /\ msgs[a][i].content = EngineResult

\* tools_schema_for_openai: "required": [p for p in spec["params"] if p in
\* ("when", "course", "time")]; every declared parameter has type string
Required(tool_name) == TOOLS[tool_name].params \cap {"when", "course", "time"}

\* The decoded arguments do not fit the schema declared for the tool: they are no
\* object, a value is no string, or a required parameter is missing
ViolatesSchema(tool_name, arguments) ==
    \/ arguments \in {"not_object", "nonstring"}
    \/ arguments = "empty" /\ Required(tool_name) # {}

\* The model queries of the invocation that requested a registered tool with
\* arguments that decode and fit its schema
ConformingRequests(a) ==
    {i \in DOMAIN queries[a] :
        /\ queries[a][i].kind = "message" /\ queries[a][i].tool \in DOMAIN TOOLS
        /\ ~DecodeFails(queries[a][i].arguments)
        /\ ~ViolatesSchema(queries[a][i].tool, queries[a][i].arguments)}

\* The payload the dispatch is specified to return for such arguments
InvalidArgumentsError == "{error: InvalidArguments}"

\* C15: arguments are validated against the declared schema before a handler is
\* invoked: handlers run only for requests whose arguments fit the schema, and
\* for a registered tool requested with arguments that violate it, the tool
\* result put into msgs is an InvalidArguments error.
C15_ArgumentsValidated ==
    \A a \in Agents :
        /\ Len(fn_calls[a]) <= Cardinality(ConformingRequests(a))
        /\ \A i \in DOMAIN msgs[a] :
              (/\ msgs[a][i].role = "assistant" /\ msgs[a][i].name \in DOMAIN TOOLS
               /\ ViolatesSchema(msgs[a][i].name, msgs[a][i].arguments)
               /\ i < Len(msgs[a]))
                  => msgs[a][i + 1].content = InvalidArgumentsError

\* The last entry of a non-empty list
LastEntry(h) == h[Len(h)]

\* C18: an invocation that has returned has appended exactly one assistant entry,
\* whose content is the returned reply: the stored history ends with the user
\* entry of the invocation (the one its context was built from) followed by
\* that assistant entry, their ts one clock tick apart (the clock ticks once per
\* append_history call).  The user entry is stored before the first model
\* query, and once the assistant entry is being appended the invocation makes no
\* further model query and executes no further tool.
C18_OneAssistantEntryAfterLastQuery ==
    /\ [](\A a \in Agents :
             /\ apc[a] = "returned" =>
                   /\ Len(get_history) >= 2
                   /\ LastEntry(get_history) =
                         [role |-> "assistant", content |-> reply[a], ts |-> appendCount]
                   /\ get_history[Len(get_history) - 1] = LastEntry(history[a])
                   /\ get_history[Len(get_history) - 1].role = "user"
                   /\ get_history[Len(get_history) - 1].ts = appendCount - 1
             /\ queries[a] # <<>> =>
                   /\ history[a] # <<>> /\ LastEntry(history[a]).role = "user"
                   /\ \E i \in DOMAIN get_history : get_history[i] = LastEntry(history[a]))
    /\ [][\A a \in Agents :
             (apc[a] = "append_reply" /\ apc'[a] \in {"append_reply", "returned"}) =>
                 /\ queries'[a] = queries[a]
                 /\ fn_calls'[a] = fn_calls[a]
                 /\ msgs'[a] = msgs[a]]_vars

\* An invocation has returned the model's text after a tool was executed
C18_Witness ==
    \E a \in Agents :
        /\ apc[a] = "returned" /\ reply[a] = "text"
        /\ fn_calls[a] # <<>> /\ Len(queries[a]) >= 2

C20_ContextEndsWithOwnMessage ==
    \A a \in Agents :
        (apc[a] = "query" /\ step[a] = 0) =>
            /\ msgs[a] # <<>>
            /\ msgs[a][Len(msgs[a])] = Msg("user", user_text[a], "none", "none")
====
